---- MODULE Spec2Model ----
(***************************************************************************)
(* Model of tesla.go: the Client built by New from a sequence of Options,  *)
(* and Client.GetFleetStatus, one POST to the fleet_status endpoint whose  *)
(* JSON response is decoded and flattened into a FleetStatus.              *)
(*                                                                         *)
(* The transport (c.hc) and the server behind it are the environment: the  *)
(* model draws what they deliver (an error, or a status code and a body    *)
(* stream) nondeterministically.  Every goroutine calling GetFleetStatus   *)
(* is a process; it can be interleaved with the others at the two places   *)
(* the code blocks: c.hc.Do and the Reads that io.ReadAll makes.           *)
(***************************************************************************)
EXTENDS Integers, Sequences, FiniteSets, TLC

VARIABLES
    options,   \* New's parameter: the options still in scope inside New
    i,         \* New's loop position in options
    pcNew,     \* "loop" while New runs, "done" once it has returned c
    client,    \* the Client c: [hc, baseURL]
    built,     \* history: the Client as New returned it
    callers,   \* the goroutines that use the client
    fleet,     \* the server's fleet data: the JSON object under "response"
    call       \* per goroutine, the GetFleetStatus call it is in or last made

vars == <<options, i, pcNew, client, built, callers, fleet, call>>

(***************************************************************************)
(* Bounds of the model.                                                    *)
(***************************************************************************)
MaxOpts == 2     \* longest option sequence handed to New
MaxChunks == 1   \* most data chunks a body delivers before EOF or an error
MaxPaired == 2   \* longest key_paired_vins array the server sends

Procs == {"g1", "g2"}
VINs == {"5YJ3E1EA1JF000001", "5YJ3E1EA1JF000002"}
Tokens == {"tokA", "tokB"}
Statuses == {200, 403, 500}

(***************************************************************************)
(* URLs.  A URL is its host and its path segments.  url.URL.String of a    *)
(* URL whose host holds a space does not parse back, which is how          *)
(* http.NewRequestWithContext fails.                                       *)
(***************************************************************************)
DefaultBaseURL == [host |-> "fleet-api.prd.na.vn.cloud.tesla.com", path |-> <<>>]
ProxyBaseURL == [host |-> "proxy.example", path |-> <<"tesla">>]
BadBaseURL == [host |-> "bad host", path |-> <<>>]
BaseURLs == {DefaultBaseURL, ProxyBaseURL, BadBaseURL}

\* http.DefaultClient and a caller-supplied client (a mock, a custom transport).
DefaultClient == "http.DefaultClient"
MockClient == "mockClient"
HTTPClients == {DefaultClient, MockClient}

FleetStatusPath == <<"api", "1", "vehicles", "fleet_status">>

\* c.baseURL.JoinPath("api/1/vehicles/fleet_status")
JoinPath(u, elem) == [u EXCEPT !.path = @ \o elem]

\* Mutant: the path is appended to the receiver itself.
ReceiverJoinedInPlace(u, elem) == JoinPath(u, elem)

\* JoinPath returns a new URL; the receiver c.baseURL is left as it was.
ReceiverAfterJoinPath(u, elem) == u

NewRequestFails(u) == u.host = "bad host"

(***************************************************************************)
(* JSON as it is on the wire.  A scalar is its kind and its literal text;  *)
(* "missing" stands for a key the object does not have.                    *)
(***************************************************************************)
JMissing == [kind |-> "missing", text |-> ""]
JNull == [kind |-> "null", text |-> "null"]
JBool(b) == [kind |-> "bool", text |-> IF b THEN "true" ELSE "false"]
JString(s) == [kind |-> "string", text |-> s]
JNumber(t) == [kind |-> "number", text |-> t]

JArray(items) == [kind |-> "array", items |-> items]
JNullArray == [kind |-> "null", items |-> <<>>]
JObject(members) == [kind |-> "object", members |-> members]
JNullObject == [kind |-> "null", members |-> [v \in {} |-> JMissing]]

\* The per-vehicle objects the server may hold.
\* The entry of the spec's end-to-end scenario: two nulls, three keys.
EntryExample ==
    [vehicle_command_protocol_required |-> JBool(TRUE),
     safety_screen_streaming_toggle_enabled |-> JNull,
     firmware_version |-> JString("2024.8.1"),
     fleet_telemetry_version |-> JNull,
     total_number_of_keys |-> JNumber("3"),
     discounted_device_data |-> JBool(FALSE)]
\* Optional fields present with the values a default would also give.
EntryZeroes ==
    [vehicle_command_protocol_required |-> JMissing,
     safety_screen_streaming_toggle_enabled |-> JBool(FALSE),
     firmware_version |-> JString("2023.44.30"),
     fleet_telemetry_version |-> JString(""),
     total_number_of_keys |-> JNumber("0"),
     discounted_device_data |-> JBool(TRUE)]
\* The empty object {}.
EntryEmpty ==
    [vehicle_command_protocol_required |-> JMissing,
     safety_screen_streaming_toggle_enabled |-> JMissing,
     firmware_version |-> JMissing,
     fleet_telemetry_version |-> JMissing,
     total_number_of_keys |-> JMissing,
     discounted_device_data |-> JMissing]
Entries == {EntryExample, EntryZeroes, EntryEmpty}

SeqsUpTo(S, n) == UNION {[1..k -> S] : k \in 0..n}
Range(s) == {s[k] : k \in DOMAIN s}

VehicleMaps == UNION {[D -> Entries] : D \in SUBSET VINs}

\* The server lists as unpaired the vehicles it knows that are not paired.
UnpairedOf(kp, m) ==
    LET U == DOMAIN m \ Range(kp)
    IN  IF U = {} THEN <<>> ELSE <<CHOOSE v \in U : TRUE>>

FleetDoc(kp, m) ==
    [key_paired_vins |-> kp,
     unpaired_vins |-> IF kp.kind = "array" /\ m.kind = "object"
                       THEN JArray(UnpairedOf(kp.items, m.members))
                       ELSE JNullArray,
     vehicle_info |-> m]

Fleets ==
    {FleetDoc(kp, m) :
        kp \in {JArray(s) : s \in SeqsUpTo(VINs, MaxPaired)} \cup {JNullArray},
        m \in {JObject(f) : f \in VehicleMaps} \cup {JNullObject}}

(***************************************************************************)
(* encoding/json, for the types of lines 56-77.  A decoder returns the Go  *)
(* value and whether the JSON value had the wrong type.  JSON null and a   *)
(* missing key leave the field at its zero value.  A pointer is <<>> when  *)
(* nil and <<v>> when it points to v.                                      *)
(***************************************************************************)
ParseInt(text) ==
    CASE text = "0" -> 0
      [] text = "1" -> 1
      [] text = "2" -> 2
      [] text = "3" -> 3
      [] OTHER -> 0

DecodeBool(j) ==
    CASE j.kind \in {"missing", "null"} -> [err |-> FALSE, val |-> FALSE]
      [] j.kind = "bool" -> [err |-> FALSE, val |-> (j.text = "true")]
      [] OTHER -> [err |-> TRUE, val |-> FALSE]

DecodeString(j) ==
    CASE j.kind \in {"missing", "null"} -> [err |-> FALSE, val |-> ""]
      [] j.kind = "string" -> [err |-> FALSE, val |-> j.text]
      [] OTHER -> [err |-> TRUE, val |-> ""]

DecodeBoolPtr(j) ==
    CASE j.kind \in {"missing", "null"} -> [err |-> FALSE, val |-> <<>>]
      [] j.kind = "bool" -> [err |-> FALSE, val |-> <<(j.text = "true")>>]
      [] OTHER -> [err |-> TRUE, val |-> <<>>]

DecodeStringPtr(j) ==
    CASE j.kind \in {"missing", "null"} -> [err |-> FALSE, val |-> <<>>]
      [] j.kind = "string" -> [err |-> FALSE, val |-> <<j.text>>]
      [] OTHER -> [err |-> TRUE, val |-> <<>>]

\* Mutant: a null or missing number decodes to a pointer to 0.
DecodeIntPtrDefaulting(j) ==
    CASE j.kind \in {"missing", "null"} -> [err |-> FALSE, val |-> <<0>>]
      [] j.kind = "number" -> [err |-> FALSE, val |-> <<ParseInt(j.text)>>]
      [] OTHER -> [err |-> TRUE, val |-> <<>>]

DecodeIntPtr(j) ==
    CASE j.kind \in {"missing", "null"} -> [err |-> FALSE, val |-> <<>>]
      [] j.kind = "number" -> [err |-> FALSE, val |-> <<ParseInt(j.text)>>]
      [] OTHER -> [err |-> TRUE, val |-> <<>>]

\* type vehicleInfo
DecodeVehicleInfo(e) ==
    LET a == DecodeBool(e.vehicle_command_protocol_required)
        b == DecodeBoolPtr(e.safety_screen_streaming_toggle_enabled)
        c == DecodeString(e.firmware_version)
        d == DecodeStringPtr(e.fleet_telemetry_version)
        k == DecodeIntPtr(e.total_number_of_keys)
        g == DecodeBool(e.discounted_device_data)
    IN  [err |-> a.err \/ b.err \/ c.err \/ d.err \/ k.err \/ g.err,
         val |-> [VehicleCommandProtocolRequired |-> a.val,
                  SafetyScreenStreamingToggleEnabled |-> b.val,
                  FirmwareVersion |-> c.val,
                  FleetTelemetryVersion |-> d.val,
                  TotalNumberOfKeys |-> k.val,
                  DiscountedDeviceData |-> g.val]]

\* The zero value of vehicleInfo, which a lookup of an absent map key yields.
ZeroVehicleInfo ==
    [VehicleCommandProtocolRequired |-> FALSE,
     SafetyScreenStreamingToggleEnabled |-> <<>>,
     FirmwareVersion |-> "",
     FleetTelemetryVersion |-> <<>>,
     TotalNumberOfKeys |-> <<>>,
     DiscountedDeviceData |-> FALSE]

\* []string
DecodeStringArray(j) ==
    CASE j.kind \in {"missing", "null"} -> [err |-> FALSE, val |-> <<>>]
      [] j.kind = "array" -> [err |-> FALSE, val |-> j.items]
      [] OTHER -> [err |-> TRUE, val |-> <<>>]

\* map[string]vehicleInfo
DecodeVehicleMap(j) ==
    CASE j.kind \in {"missing", "null"} ->
            [err |-> FALSE, val |-> [v \in {} |-> ZeroVehicleInfo]]
      [] j.kind = "object" ->
            [err |-> \E v \in DOMAIN j.members : DecodeVehicleInfo(j.members[v]).err,
             val |-> [v \in DOMAIN j.members |-> DecodeVehicleInfo(j.members[v]).val]]
      [] OTHER -> [err |-> TRUE, val |-> [v \in {} |-> ZeroVehicleInfo]]

\* type fleetStatus
DecodeFleetStatus(doc) ==
    LET k == DecodeStringArray(doc.key_paired_vins)
        u == DecodeStringArray(doc.unpaired_vins)
        m == DecodeVehicleMap(doc.vehicle_info)
    IN  [err |-> k.err \/ u.err \/ m.err,
         val |-> [KeyPairedVINs |-> k.val,
                  UnpairedVINs |-> u.val,
                  VehicleInfo |-> m.val]]

(***************************************************************************)
(* The bytes of a response body: whether they are a JSON text at all, and  *)
(* the object under the envelope's "response" key when they are.           *)
(***************************************************************************)
BodyKinds == {"fleet", "badtype", "malformed"}

BodyBytes(kind, doc) ==
    CASE kind = "fleet" -> [wellformed |-> TRUE, doc |-> doc]
      [] kind = "badtype" ->
            [wellformed |-> TRUE,
             doc |-> [doc EXCEPT !.key_paired_vins =
                                    [kind |-> "string", items |-> <<>>]]]
      [] OTHER -> [wellformed |-> FALSE, doc |-> doc]

\* json.Unmarshal(respBytes, &respBody), respBody a responseWrapper[fleetStatus]
Unmarshal(bytes) ==
    IF ~bytes.wellformed
    THEN [err |-> TRUE,
          val |-> [Response |-> DecodeFleetStatus(FleetDoc(JNullArray, JNullObject)).val]]
    ELSE [err |-> DecodeFleetStatus(bytes.doc).err,
          val |-> [Response |-> DecodeFleetStatus(bytes.doc).val]]

(***************************************************************************)
(* New and the options (lines 27-54).                                      *)
(***************************************************************************)
NoURL == [host |-> "", path |-> <<>>]
WithHTTPClient(hc) == [set |-> "hc", hc |-> hc, u |-> NoURL]
WithBaseURL(u) == [set |-> "baseURL", hc |-> "", u |-> u]

Options ==
    {WithHTTPClient(hc) : hc \in HTTPClients} \cup {WithBaseURL(u) : u \in BaseURLs}

\* Mutant: an option sets a field only while it holds its default.
ApplyOptionFirstWins(c, opt) ==
    IF opt.set = "hc"
    THEN IF c.hc = "http.DefaultClient" THEN [c EXCEPT !.hc = opt.hc] ELSE c
    ELSE IF c.baseURL.host = "fleet-api.prd.na.vn.cloud.tesla.com"
         THEN [c EXCEPT !.baseURL = opt.u] ELSE c

\* opt(c)
ApplyOption(c, opt) ==
    IF opt.set = "hc" THEN [c EXCEPT !.hc = opt.hc]
                      ELSE [c EXCEPT !.baseURL = opt.u]

\* c := &Client{hc: http.DefaultClient, baseURL: DefaultBaseURL}
NewClient == [hc |-> DefaultClient, baseURL |-> DefaultBaseURL]

(***************************************************************************)
(* GetFleetStatus (lines 83-133).  An error is <<>> when nil and otherwise *)
(* <<[msg, code, cause]>>: the message of the fmt.Errorf that made it, the *)
(* status code it formats (0 when it formats none) and the error it wraps. *)
(* A *FleetStatus is <<>> when nil and <<fs>> otherwise.                   *)
(***************************************************************************)
StatusOK == 200

Err(msg, code, cause) == <<[msg |-> msg, code |-> code, cause |-> cause]>>

IdleCall ==
    [pc |-> "idle", vin |-> "", token |-> "", ctxDone |-> FALSE,
     req |-> <<>>, via |-> "", sent |-> 0, doneAtDo |-> FALSE,
     acquired |-> FALSE, status |-> 0, nRead |-> 0, eof |-> FALSE,
     readErr |-> FALSE, body |-> "", closed |-> FALSE,
     result |-> <<>>, err |-> <<>>]

\* json.Marshal of a struct holding a slice of strings: it has no failing case.
Marshal(reqBody) == [err |-> FALSE, bytes |-> reqBody]

\* Mutant: the request is built with http.NewRequest, on context.Background.
RequestContextBackground(ctx) == "background"

\* The context http.NewRequestWithContext attaches to the request.
RequestContext(ctx) == ctx

\* Lines 84-102, up to the call of c.hc.Do: the call as it stands once the
\* request has been handed to the transport, or has failed to be built.
StartCall(c, token, vin) ==
    LET reqBody == [vins |-> <<vin>>]
        m == Marshal(reqBody)
        u == JoinPath(c.baseURL, FleetStatusPath)
        begun == [IdleCall EXCEPT !.vin = vin, !.token = token]
    IN  IF m.err
        THEN [begun EXCEPT !.pc = "returned",
                           !.err = Err("failed to serialize request body", 0, "json")]
        ELSE IF NewRequestFails(u)
        THEN [begun EXCEPT !.pc = "returned",
                           !.err = Err("failed to construct request", 0, "url")]
        ELSE [begun EXCEPT !.pc = "sent",
                           !.req = <<[method |-> "POST",
                                      url |-> u,
                                      ctx |-> RequestContext("caller"),
                                      Authorization |-> <<"Bearer", token>>,
                                      ContentType |-> "application/json",
                                      body |-> m.bytes]>>,
                           !.via = c.hc,
                           !.sent = 1]

\* http.DefaultClient aborts a request whose context is done; a client the
\* caller supplies need not look at the context at all.
HonoursContext(hc) == hc = DefaultClient

\* Whether the transport sees the caller's cancellation on this request.
ObservesCancel(c) ==
    /\ c.req # <<>>
    /\ c.req[1].ctx = "caller"
    /\ c.ctxDone
    /\ HonoursContext(c.via)

\* What c.hc.Do can return: an error, or a response with a status code.
TransportOutcomes(c) ==
    IF ObservesCancel(c)
    THEN {[err |-> "context canceled", status |-> 0]}
    ELSE {[err |-> "network", status |-> 0]}
         \cup {[err |-> "", status |-> s] : s \in Statuses}

\* Mutant: a transport error is retried once.
AfterDoRetry(c, out) ==
    IF out.err # "" /\ c.sent < 2
    THEN [c EXCEPT !.sent = @ + 1]
    ELSE IF out.err # ""
    THEN [c EXCEPT !.pc = "returned", !.doneAtDo = c.ctxDone,
                   !.err = Err("request failed", 0, out.err)]
    ELSE [c EXCEPT !.pc = "reading", !.doneAtDo = c.ctxDone,
                   !.acquired = TRUE, !.status = out.status]

\* Lines 102-105.
AfterDo(c, out) ==
    IF out.err # ""
    THEN [c EXCEPT !.pc = "returned", !.doneAtDo = c.ctxDone,
                   !.err = Err("request failed", 0, out.err)]
    ELSE [c EXCEPT !.pc = "reading", !.doneAtDo = c.ctxDone,
                   !.acquired = TRUE, !.status = out.status]

\* What one Read of resp.Body can return: data, the end of the stream (and
\* with it the bytes read are known), or an error.
ReadOutcomes(c) ==
    IF ObservesCancel(c)
    THEN {[what |-> "err", body |-> ""]}
    ELSE {[what |-> "err", body |-> ""]}
         \cup (IF c.nRead < MaxChunks THEN {[what |-> "data", body |-> ""]} ELSE {})
         \cup (IF c.nRead = 0
               THEN {[what |-> "eof", body |-> "empty"]}
               ELSE {[what |-> "eof", body |-> b] : b \in BodyKinds})

\* Line 106: io.ReadAll reads until a Read returns io.EOF or an error.
AfterRead(c, r) ==
    CASE r.what = "data" -> [c EXCEPT !.nRead = @ + 1]
      [] r.what = "eof" -> [c EXCEPT !.pc = "closing", !.eof = TRUE, !.body = r.body]
      [] OTHER -> [c EXCEPT !.pc = "closing", !.readErr = TRUE]

\* Mutant: paired when any VIN is listed.
KeyPairedNonEmpty(keyPairedVINs) == Len(keyPairedVINs) >= 1

\* len(respBody.Response.KeyPairedVINs) == 1
KeyPaired(keyPairedVINs) == Len(keyPairedVINs) = 1

\* Mutant: an absent key yields the entry of another vehicle.
MapIndexAny(m, vin) ==
    IF vin \in DOMAIN m THEN m[vin]
    ELSE IF DOMAIN m # {} THEN m[CHOOSE v \in DOMAIN m : TRUE]
    ELSE ZeroVehicleInfo

\* respBody.Response.VehicleInfo[vin]: a Go map yields the zero value for a
\* key it does not hold.
MapIndex(m, vin) == IF vin \in DOMAIN m THEN m[vin] ELSE ZeroVehicleInfo

\* Lines 122-132.
MakeFleetStatus(respBody, vin) ==
    LET fs == MapIndex(respBody.Response.VehicleInfo, vin)
    IN  [KeyPaired |-> KeyPaired(respBody.Response.KeyPairedVINs),
         VehicleCommandProtocolRequired |-> fs.VehicleCommandProtocolRequired,
         SafetyScreenStreamingToggleEnabled |-> fs.SafetyScreenStreamingToggleEnabled,
         FirmwareVersion |-> fs.FirmwareVersion,
         FleetTelemetryVersion |-> fs.FleetTelemetryVersion,
         TotalNumberOfKeys |-> fs.TotalNumberOfKeys,
         DiscountedDeviceData |-> fs.DiscountedDeviceData]

\* Mutant: a parse failure returns what was decoded together with the error.
FinishKeepsPartial(readErr, status, bytes, vin) ==
    IF readErr
    THEN [result |-> <<>>, err |-> Err("failed to read response body", 0, "read")]
    ELSE IF status # 200
    THEN [result |-> <<>>, err |-> Err("status code", status, "")]
    ELSE LET d == Unmarshal(bytes)
         IN  [result |-> <<MakeFleetStatus(d.val, vin)>>,
              err |-> IF d.err
                      THEN Err("failed to parse response body", 0, "json")
                      ELSE <<>>]

\* Mutant: only server errors are rejected by their status code.
FinishServerErrorsOnly(readErr, status, bytes, vin) ==
    IF readErr
    THEN [result |-> <<>>, err |-> Err("failed to read response body", 0, "read")]
    ELSE IF status >= 500
    THEN [result |-> <<>>, err |-> Err("status code", status, "")]
    ELSE LET d == Unmarshal(bytes)
         IN  IF d.err
             THEN [result |-> <<>>,
                   err |-> Err("failed to parse response body", 0, "json")]
             ELSE [result |-> <<MakeFleetStatus(d.val, vin)>>, err |-> <<>>]

\* Lines 108-133: what GetFleetStatus returns once the body has been read.
Finish(readErr, status, bytes, vin) ==
    IF readErr
    THEN [result |-> <<>>, err |-> Err("failed to read response body", 0, "read")]
    ELSE IF status # StatusOK
    THEN [result |-> <<>>, err |-> Err("status code", status, "")]
    ELSE LET d == Unmarshal(bytes)
         IN  IF d.err
             THEN [result |-> <<>>,
                   err |-> Err("failed to parse response body", 0, "json")]
             ELSE [result |-> <<MakeFleetStatus(d.val, vin)>>, err |-> <<>>]

\* Mutant: the body is closed after the read-error check, so not when the
\* read failed.
AfterCloseUnlessReadFailed(c, bytes) ==
    LET out == Finish(c.readErr, c.status, bytes, c.vin)
    IN  [c EXCEPT !.pc = "returned", !.closed = ~c.readErr,
                  !.result = out.result, !.err = out.err]

\* Lines 107-133: resp.Body.Close(), then the checks and the return.
AfterClose(c, bytes) ==
    LET out == Finish(c.readErr, c.status, bytes, c.vin)
    IN  [c EXCEPT !.pc = "returned", !.closed = TRUE,
                  !.result = out.result, !.err = out.err]

(***************************************************************************)
(* The state machine.                                                      *)
(***************************************************************************)
OptionSeqs == SeqsUpTo(Options, MaxOpts)

InitCommon ==
    /\ i = 1
    /\ pcNew = "loop"
    /\ client = NewClient
    /\ built = NewClient
    /\ call = [p \in Procs |-> IdleCall]

\* One goroutine uses the client.
Init ==
    /\ InitCommon
    /\ options \in OptionSeqs
    /\ callers = {"g1"}
    /\ fleet \in Fleets

\* for _, opt := range options { opt(c) }
NewApply ==
    /\ pcNew = "loop"
    /\ i <= Len(options)
    /\ client' = ApplyOption(client, options[i])
    /\ i' = i + 1
    /\ UNCHANGED <<options, pcNew, built, callers, fleet, call>>

\* return c: New's frame, and with it its parameter, is gone.
NewReturn ==
    /\ pcNew = "loop"
    /\ i > Len(options)
    /\ pcNew' = "done"
    /\ options' = <<>>
    /\ i' = 1
    /\ built' = client
    /\ UNCHANGED <<client, callers, fleet, call>>

\* A goroutine calls GetFleetStatus and runs it up to c.hc.Do.
Call(p) ==
    /\ pcNew = "done"
    /\ p \in callers
    /\ call[p].pc \in {"idle", "returned"}
    /\ \E token \in Tokens, vin \in VINs :
          call' = [call EXCEPT ![p] = StartCall(client, token, vin)]
    /\ client' = [client EXCEPT
                     !.baseURL = ReceiverAfterJoinPath(@, FleetStatusPath)]
    /\ UNCHANGED <<options, i, pcNew, built, callers, fleet>>

\* The caller's context is cancelled while the call blocks.
Cancel(p) ==
    /\ call[p].pc \in {"sent", "reading"}
    /\ ~call[p].ctxDone
    /\ call' = [call EXCEPT ![p].ctxDone = TRUE]
    /\ UNCHANGED <<options, i, pcNew, client, built, callers, fleet>>

\* c.hc.Do returns.
DoReturn(p) ==
    /\ call[p].pc = "sent"
    /\ \E out \in TransportOutcomes(call[p]) :
          call' = [call EXCEPT ![p] = AfterDo(call[p], out)]
    /\ UNCHANGED <<options, i, pcNew, client, built, callers, fleet>>

\* One Read of the body, made by io.ReadAll.
ReadBody(p) ==
    /\ call[p].pc = "reading"
    /\ \E r \in ReadOutcomes(call[p]) :
          call' = [call EXCEPT ![p] = AfterRead(call[p], r)]
    /\ UNCHANGED <<options, i, pcNew, client, built, callers, fleet>>

\* resp.Body.Close() and the rest of GetFleetStatus.
CloseAndReturn(p) ==
    /\ call[p].pc = "closing"
    /\ call' = [call EXCEPT
                   ![p] = AfterClose(call[p], BodyBytes(call[p].body, fleet))]
    /\ UNCHANGED <<options, i, pcNew, client, built, callers, fleet>>

Next ==
    \/ NewApply
    \/ NewReturn
    \/ \E p \in Procs : Call(p)
    \/ \E p \in Procs : Cancel(p)
    \/ \E p \in Procs : DoReturn(p)
    \/ \E p \in Procs : ReadBody(p)
    \/ \E p \in Procs : CloseAndReturn(p)

Spec == Init /\ [][Next]_vars

\* Two goroutines share the client, against a server whose fleet holds one
\* paired vehicle.
ConcFleets ==
    {FleetDoc(JArray(<<v>>), JObject([w \in {v} |-> EntryExample])) : v \in VINs}

ConcOptionSeqs ==
    {<<>>, <<WithHTTPClient(MockClient)>>, <<WithBaseURL(ProxyBaseURL)>>}

ConcInit ==
    /\ InitCommon
    /\ options \in ConcOptionSeqs
    /\ callers = Procs
    /\ fleet \in ConcFleets

SpecConc == ConcInit /\ [][Next]_vars

\* A transport that honours the context returns once the context is done.
Abort(p) == ObservesCancel(call[p]) /\ DoReturn(p)

FairSpec == Spec /\ \A p \in Procs : WF_vars(Abort(p))

(***************************************************************************)
(* The claims.                                                             *)
(***************************************************************************)
Returned(p) == call[p].pc = "returned"
Succeeded(p) == Returned(p) /\ call[p].err = <<>> /\ call[p].result # <<>>

\* C1: a call that has returned has returned exactly one of a non-nil
\* result and a non-nil error, whichever path it took.
C1_ExactlyOneOfResultAndError ==
    \A p \in Procs :
        Returned(p) => ((call[p].result = <<>>) # (call[p].err = <<>>))

\* A call that failed to parse a 200 response: an error and no result.
C1_Witness ==
    \E p \in Procs :
        /\ Returned(p)
        /\ call[p].status = 200
        /\ call[p].body = "badtype"
        /\ call[p].err # <<>>
        /\ call[p].result = <<>>

IsStatusError(c) ==
    /\ c.result = <<>>
    /\ c.err # <<>>
    /\ c.err[1].msg = "status code"
    /\ c.err[1].code = c.status

IsReadError(c) ==
    /\ c.result = <<>>
    /\ c.err # <<>>
    /\ c.err[1].msg = "failed to read response body"
    /\ c.err[1].code = 0

\* C2 as claimed: whenever the transport delivered a response whose status
\* is not 200, whatever became of its body, the call returns no result and
\* an error reporting that status code.
C2_Original ==
    \A p \in Procs :
        (Returned(p) /\ call[p].acquired /\ call[p].status # 200)
            => IsStatusError(call[p])

\* C2 as amended: a non-200 response whose body was read to its end gives
\* no result and an error reporting the status code, 4xx and 5xx alike and
\* whatever the body holds; when reading the body fails, the call returns
\* the read error, which reports no status code.
C2_NonOKStatusIsReportedUnlessReadFails ==
    \A p \in Procs :
        (Returned(p) /\ call[p].acquired /\ call[p].status # 200)
            => IF call[p].readErr THEN IsReadError(call[p])
                                  ELSE IsStatusError(call[p])

\* A 403 whose body is the valid JSON a 200 would have carried.
C2_Witness ==
    \E p \in Procs :
        /\ Returned(p)
        /\ call[p].status = 403
        /\ call[p].body = "fleet"
        /\ IsStatusError(call[p])

\* C3 as claimed: a call that has returned handed exactly one request to
\* the transport, on every path.
C3_Original ==
    \A p \in Procs : Returned(p) => call[p].sent = 1

NotBuilt(c) ==
    /\ c.err # <<>>
    /\ c.err[1].msg \in {"failed to serialize request body",
                         "failed to construct request"}

\* C3 as amended: a call never hands more than one request to the
\* transport; a call that has returned handed it exactly one, unless it
\* failed before c.hc.Do (the request could not be built), and then none.
C3_OneRequestUnlessNotBuilt ==
    \A p \in Procs :
        /\ call[p].sent <= 1
        /\ Returned(p) => (call[p].sent = IF NotBuilt(call[p]) THEN 0 ELSE 1)
        /\ (Returned(p) /\ NotBuilt(call[p])) => call[p].req = <<>>

\* A transport error: the call returned it after its one request.
C3_Witness ==
    \E p \in Procs :
        /\ Returned(p)
        /\ call[p].sent = 1
        /\ call[p].err # <<>>
        /\ call[p].err[1].msg = "request failed"
        /\ call[p].err[1].cause = "network"

\* C4: a body the transport delivered is read until the stream ends (io.EOF
\* or the error that ends it) and only then closed, and no call returns with
\* an acquired body still open.
C4_BodyDrainedThenClosed ==
    \A p \in Procs :
        /\ (Returned(p) /\ call[p].acquired) => call[p].closed
        /\ call[p].closed => (call[p].eof \/ call[p].readErr)
        /\ call[p].closed => call[p].acquired

\* A body whose read failed after a chunk, closed all the same.
C4_Witness ==
    \E p \in Procs :
        /\ Returned(p)
        /\ call[p].acquired
        /\ call[p].readErr
        /\ call[p].nRead >= 1
        /\ call[p].closed

\* The number of elements of a JSON array of the response; null has none.
JSONLen(j) == IF j.kind = "array" THEN Len(j.items) ELSE 0

\* C5: on a successful call KeyPaired is true exactly when key_paired_vins
\* has one element, whichever VIN that is.
C5_KeyPairedIffOneElement ==
    \A p \in Procs :
        Succeeded(p) =>
            (call[p].result[1].KeyPaired <=> (JSONLen(fleet.key_paired_vins) = 1))

\* KeyPaired is true though the one paired VIN is not the queried one.
C5_Witness ==
    \E p \in Procs :
        /\ Succeeded(p)
        /\ call[p].result[1].KeyPaired
        /\ fleet.key_paired_vins.items # <<call[p].vin>>

HasEntry(vin) ==
    fleet.vehicle_info.kind = "object" /\ vin \in DOMAIN fleet.vehicle_info.members

Absent(j) == j.kind \in {"missing", "null"}
JSONTrue(j) == j.kind = "bool" /\ j.text = "true"
JSONText(j) == IF j.kind = "string" THEN j.text ELSE ""
JSONInt(j) == IF j.text = "3" THEN 3 ELSE 0

\* C6: on a successful call for a VIN that vehicle_info holds, the result's
\* per-vehicle fields are those of that VIN's entry: flags and firmware as
\* they are, each optional field nil exactly when the JSON value is null or
\* missing, and pointing to the JSON value otherwise.
C6_FieldsOfQueriedVIN ==
    \A p \in Procs :
        (Succeeded(p) /\ HasEntry(call[p].vin)) =>
            LET e == fleet.vehicle_info.members[call[p].vin]
                r == call[p].result[1]
            IN  /\ r.VehicleCommandProtocolRequired
                      = JSONTrue(e.vehicle_command_protocol_required)
                /\ r.DiscountedDeviceData = JSONTrue(e.discounted_device_data)
                /\ r.FirmwareVersion = JSONText(e.firmware_version)
                /\ r.SafetyScreenStreamingToggleEnabled
                      = IF Absent(e.safety_screen_streaming_toggle_enabled)
                        THEN <<>>
                        ELSE <<JSONTrue(e.safety_screen_streaming_toggle_enabled)>>
                /\ r.FleetTelemetryVersion
                      = IF Absent(e.fleet_telemetry_version)
                        THEN <<>>
                        ELSE <<JSONText(e.fleet_telemetry_version)>>
                /\ r.TotalNumberOfKeys
                      = IF Absent(e.total_number_of_keys)
                        THEN <<>>
                        ELSE <<JSONInt(e.total_number_of_keys)>>

\* The scenario of the spec, with another entry for the other VIN.
C6_Witness ==
    \E p \in Procs :
        /\ Succeeded(p)
        /\ HasEntry(call[p].vin)
        /\ fleet.vehicle_info.members[call[p].vin] = EntryExample
        /\ \E w \in DOMAIN fleet.vehicle_info.members :
              fleet.vehicle_info.members[w] = EntryZeroes
        /\ call[p].result[1].TotalNumberOfKeys = <<3>>
        /\ call[p].result[1].FleetTelemetryVersion = <<>>

\* C7: a 200 response that parses but holds no entry for the queried VIN
\* gives no error and a result whose per-vehicle fields are all zero, with
\* KeyPaired still derived from key_paired_vins.
C7_MissingVINGivesZeroValues ==
    \A p \in Procs :
        (/\ Returned(p)
         /\ call[p].eof
         /\ call[p].status = 200
         /\ call[p].body = "fleet"
         /\ ~HasEntry(call[p].vin)) =>
            /\ call[p].err = <<>>
            /\ call[p].result =
                  <<[KeyPaired |-> (JSONLen(fleet.key_paired_vins) = 1),
                     VehicleCommandProtocolRequired |-> FALSE,
                     SafetyScreenStreamingToggleEnabled |-> <<>>,
                     FirmwareVersion |-> "",
                     FleetTelemetryVersion |-> <<>>,
                     TotalNumberOfKeys |-> <<>>,
                     DiscountedDeviceData |-> FALSE]>>

\* The queried VIN is missing while the other VIN has an entry and is the
\* one paired VIN.
C7_Witness ==
    \E p \in Procs :
        /\ Succeeded(p)
        /\ fleet.vehicle_info.kind = "object"
        /\ DOMAIN fleet.vehicle_info.members = VINs \ {call[p].vin}
        /\ JSONLen(fleet.key_paired_vins) = 1
        /\ call[p].result[1].KeyPaired

\* The last option of opts that sets field f, 0 when none does.
LastSetter(opts, f) ==
    LET S == {k \in DOMAIN opts : opts[k].set = f}
    IN  IF S = {} THEN 0 ELSE CHOOSE k \in S : \A j \in S : j <= k

ExpectedClient(opts) ==
    [hc |-> IF LastSetter(opts, "hc") = 0
            THEN DefaultClient
            ELSE opts[LastSetter(opts, "hc")].hc,
     baseURL |-> IF LastSetter(opts, "baseURL") = 0
                 THEN DefaultBaseURL
                 ELSE opts[LastSetter(opts, "baseURL")].u]

\* C8: while New runs, and when its loop is over and it is about to return
\* c, each field of c holds what the last option applied so far that sets it
\* gave it, and the default when none did.
C8_LastOptionWins ==
    pcNew = "loop" => client = ExpectedClient(SubSeq(options, 1, i - 1))

\* All options applied: two for the same field, the other field untouched.
C8_Witness ==
    /\ pcNew = "loop"
    /\ Len(options) = 2
    /\ i > Len(options)
    /\ options[1].set = options[2].set
    /\ options[1] # options[2]
    /\ client = ApplyOption(NewClient, options[2])

IsCancelError(c) ==
    /\ c.result = <<>>
    /\ c.err # <<>>
    /\ c.err[1].msg = "request failed"
    /\ c.err[1].cause = "context canceled"

\* C9 as claimed (its safety half): a call whose context was done when the
\* transport completed returned a cancellation error and no result.
C9_Original ==
    \A p \in Procs :
        (Returned(p) /\ call[p].sent = 1 /\ call[p].doneAtDo)
            => IsCancelError(call[p])

\* C9 as amended: when the request is with a transport that honours its
\* context and the context is cancelled before the transport completes, the
\* call eventually returns, and it returns the transport's cancellation
\* error and no result.
C9_CancelledWithHonouringTransport ==
    /\ [][\A p \in Procs :
            (Returned(p)' /\ call'[p].sent = 1 /\ call'[p].doneAtDo
                /\ HonoursContext(call'[p].via))
              => IsCancelError(call'[p])]_vars
    /\ \A p \in Procs :
          (call[p].pc = "sent" /\ call[p].ctxDone /\ HonoursContext(call[p].via))
              ~> (Returned(p) /\ IsCancelError(call[p]))

\* Cancelled while the default client had the request, and returned.
C9_Witness ==
    \E p \in Procs :
        /\ Returned(p)
        /\ call[p].doneAtDo
        /\ call[p].via = DefaultClient
        /\ IsCancelError(call[p])

\* What a call with these arguments does when run alone on the client New
\* returned: the request it sends, and what it returns given the response
\* it got.
SoloRequest(c) ==
    IF NewRequestFails(JoinPath(built.baseURL, FleetStatusPath))
    THEN <<>>
    ELSE <<[method |-> "POST",
            url |-> JoinPath(built.baseURL, FleetStatusPath),
            ctx |-> "caller",
            Authorization |-> <<"Bearer", c.token>>,
            ContentType |-> "application/json",
            body |-> [vins |-> <<c.vin>>]]>>

SoloReturn(c) ==
    IF c.req = <<>> THEN [result |-> <<>>,
                          err |-> Err("failed to construct request", 0, "url")]
    ELSE IF ~c.acquired
    THEN [result |-> <<>>,
          err |-> Err("request failed", 0,
                      IF c.doneAtDo /\ HonoursContext(built.hc)
                      THEN "context canceled" ELSE "network")]
    ELSE Finish(c.readErr, c.status, BodyBytes(c.body, fleet), c.vin)

Independent(p) ==
    LET c == call[p]
    IN  /\ c.pc # "idle" =>
              (c.req = SoloRequest(c) /\ (c.req # <<>> => c.via = built.hc))
        /\ c.pc = "returned" =>
              [result |-> c.result, err |-> c.err] = SoloReturn(c)

\* C10: once New has returned, the client stays as New returned it, however
\* the calls of the goroutines interleave, and every call sends the request,
\* and returns the result or error, that its own arguments and its own
\* response give it when it runs alone on that client.
C10_ClientImmutableCallsIndependent ==
    /\ pcNew = "done" => client = built
    /\ \A p \in Procs : Independent(p)

\* Both goroutines have returned a result, each read from its own body, for
\* different VINs and with different tokens.
C10_Witness ==
    /\ \A p \in Procs : Succeeded(p)
    /\ \A p \in Procs : call[p].nRead >= 1
    /\ call["g1"].vin # call["g2"].vin
    /\ call["g1"].token # call["g2"].token
    /\ call["g1"].result # call["g2"].result

====
